---- MODULE Spec2Model ----
(***************************************************************************)
(* Model of the training orchestrator of src/trainer.py (class Trainer):   *)
(* the epoch loop (run), the staggered component training (train_agent,    *)
(* train_component), the evaluation (eval_agent, eval_component,           *)
(* inspect_imagination) and the checkpoint manager (save_checkpoint,       *)
(* _save_checkpoint, load_checkpoint).                                     *)
(*                                                                         *)
(* Three specifications share the variables:                               *)
(*   Spec      the epoch scheduler of one process, over all gate settings  *)
(*   SpecCkpt  the checkpoint manager: saves that are interrupted between  *)
(*             two writes, and processes that resume from the directory    *)
(*   SpecTC    train_component alone, statement by statement, with the     *)
(*             per-step losses as inputs                                   *)
(***************************************************************************)
EXTENDS Integers, Sequences, FiniteSets, TLC

VARIABLES
  cfg,        \* the configuration the process reads (train_cfg)
  pc,         \* position of the process in __init__ / run
  runs,       \* number of processes started so far
  resume,     \* train_cfg.common.resume of the current process
  self,       \* the Trainer object: start_epoch, agent, optimizers, datasets
  epoch,      \* loop variable of run (0 before the first iteration)
  to_log,     \* the list to_log of the current iteration
  wandb_log,  \* every record handed to wandb.log, in order
  events,     \* the operations of the current iteration, in order
  calls,      \* calls received by the collaborators in the current iteration
  disk,       \* the checkpoint directory self.ckpt_dir
  tmp,        \* the backup directory checkpoints_tmp
  restored,   \* what load_checkpoint of the current process read from disk
  metrics,    \* train_agent's locals metrics_tokenizer, _world_model, _actor_critic
  last_save,  \* the Trainer as it was when the last save_checkpoint returned
  tc          \* frame of one train_component call (SpecTC)

vars == <<cfg, pc, runs, resume, self, epoch, to_log, wandb_log, events, calls,
          disk, tmp, restored, metrics, last_save, tc>>

----------------------------------------------------------------------------
(* Bounds *)

MaxEpochs == 3       \* cfg.common.epochs in Spec
CkptEpochs == 2      \* cfg.common.epochs in SpecCkpt
MaxStart == 1        \* start_after_epochs thresholds range over 0..MaxStart
MaxEvery == 2        \* evaluation_settings.every ranges over 1..MaxEvery
MaxSteps == 2        \* steps_per_epoch ranges over 1..MaxSteps
MaxRuns == 2         \* processes per behaviour (the first one and resumes)
NumImagination == 2  \* episode_manager_imagination.max_num_episodes
MaxGradAcc == 2      \* grad_acc_steps ranges over 1..MaxGradAcc (SpecTC)
MaxLoss == 2         \* the total loss of a batch ranges over 1..MaxLoss (SpecTC, SpecEC)
MaxBatches == 3      \* batches of an evaluation traversal range over 1..MaxBatches (SpecEC)

ComponentSet == {"tokenizer", "world_model", "actor_critic"}

\* str(component), which namespaces the metrics
TrainLossKey ==
  [tokenizer |-> "tokenizer/train/total_loss",
   world_model |-> "world_model/train/total_loss",
   actor_critic |-> "actor_critic/train/total_loss"]

EvalLossKey ==
  [tokenizer |-> "tokenizer/eval/total_loss",
   world_model |-> "world_model/eval/total_loss",
   actor_critic |-> "actor_critic/eval/total_loss"]

ImaginationKeys == {"imagination/episode_num", "imagination/action_histogram"}

ZeroPerComponent == [c \in ComponentSet |-> 0]

----------------------------------------------------------------------------
(* Files of the checkpoint directory.  ep is the epoch argument of the     *)
(* _save_checkpoint call that wrote the file.                              *)

NoWeightsFile == [present |-> FALSE, val |-> ZeroPerComponent, ep |-> 0]
NoNumberFile == [present |-> FALSE, val |-> 0, ep |-> 0]

EmptyDisk ==
  [dir |-> FALSE,
   last |-> NoWeightsFile,        \* last.pt
   epoch |-> NoNumberFile,        \* epoch.pt
   optimizer |-> NoWeightsFile,   \* optimizer.pt
   dataset |-> NoNumberFile,      \* dataset/
   num_seen |-> NoNumberFile]     \* num_seen_episodes_test_dataset.pt

NoTmp ==
  [present |-> FALSE, last |-> NoWeightsFile, epoch |-> NoNumberFile,
   optimizer |-> NoWeightsFile, num_seen |-> NoNumberFile]

NoDataset == [exists |-> FALSE, len |-> 0, num_seen_episodes |-> 0]
NewDataset == [exists |-> TRUE, len |-> 0, num_seen_episodes |-> 0]

\* The Trainer before __init__ has assigned anything
NoTrainer ==
  [start_epoch |-> 1,
   weights |-> ZeroPerComponent,
   optimizer |-> ZeroPerComponent,
   mode |-> [c \in ComponentSet |-> "train"],
   train_dataset |-> NoDataset,
   test_dataset |-> NoDataset,
   imagination |-> <<>>]

NoCalls ==
  [zero_grad |-> ZeroPerComponent,
   step |-> ZeroPerComponent,
   traverse |-> 0,
   eval_agent |-> 0,
   test_writes |-> 0,
   train_writes |-> 0]

NothingRestored ==
  [epoch |-> FALSE, last |-> FALSE, optimizer |-> FALSE, dataset |-> FALSE,
   num_seen |-> FALSE]

IdleTC == [pc |-> "idle"]

NoSave == [done |-> FALSE, epoch |-> 0, agent_only |-> FALSE, self |-> NoTrainer]

NoMetrics == [c \in ComponentSet |-> {}]

----------------------------------------------------------------------------
(* Gates *)

\* the gate of train_agent with >= in place of >
TrainActiveFromThreshold(e, cf, c) == e >= cf.train_start[c]

\* `if epoch > cfg_<component>.start_after_epochs` of train_agent
TrainActive(e, cf, c) == e > cf.train_start[c]

\* `if epoch > cfg_<component>.start_after_epochs` of eval_agent
EvalActive(e, cf, c) == e > cf.eval_start[c]

\* `epoch <= self.cfg.collector_train.stop_after_epochs` of run
CollectGate(c, e) == e <= c.stop_after_epochs

\* the evaluation gate of run taken one epoch early
EvalGateEarly(c, e) == c.eval_should /\ ((e + 1) % c.every = 0)

\* `self.cfg.evaluation_settings.should and (epoch % every == 0)` of run
EvalGate(c, e) == c.eval_should /\ (e % c.every = 0)

\* `save_agent_only=not self.cfg.common.do_checkpoint` of run
SaveAgentOnly(c) == ~c.do_checkpoint

----------------------------------------------------------------------------
(* Collaborators that live outside trainer.py: the episode datasets and the *)
(* collectors that fill them.                                               *)

\* Collector.collect: adds the episodes it played to its dataset
Collect(ds) ==
  [ds EXCEPT !.len = @ + 1, !.num_seen_episodes = @ + 1]

\* EpisodesDataset.clear: drops the stored episodes, keeps the seen count
Clear(ds) == [ds EXCEPT !.len = 0]

\* EpisodesDataset.update_disk_checkpoint: the dataset as stored in dataset/
UpdateDiskCheckpoint(ds) == ds.len

\* EpisodesDataset.load_disk_checkpoint raises unless dataset/ is a directory
DatasetLoadable(d) == d.dataset.present

\* EpisodesDataset.load_disk_checkpoint: the dataset read back from dataset/
LoadDiskCheckpoint(ds, stored) ==
  [ds EXCEPT !.len = stored, !.num_seen_episodes = stored]

----------------------------------------------------------------------------
(* train_component, as the effect of one whole call on the Trainer and on  *)
(* the calls its optimizer receives.  A frame fr is [self, calls].         *)

\* one iteration of `for _ in range(steps_per_epoch)`: zero_grad, the
\* accumulation sub-steps (which only read the dataset), optimizer.step
OptimizationStep(fr, c) ==
  [self |-> [fr.self EXCEPT !.optimizer[c] = @ + 1, !.weights[c] = @ + 1],
   calls |-> [fr.calls EXCEPT !.zero_grad[c] = @ + 1, !.step[c] = @ + 1]]

\* train_component with `range(steps_per_epoch - 1)`
RECURSIVE TrainComponentShort(_, _, _)
TrainComponentShort(fr, c, steps_per_epoch) ==
  IF steps_per_epoch <= 1
    THEN fr
    ELSE TrainComponentShort(OptimizationStep(fr, c), c, steps_per_epoch - 1)

RECURSIVE TrainComponent(_, _, _)
TrainComponent(fr, c, steps_per_epoch) ==
  IF steps_per_epoch = 0
    THEN fr
    ELSE TrainComponent(OptimizationStep(fr, c), c, steps_per_epoch - 1)

\* the metrics mapping train_component returns
TrainComponentMetrics(c) == {TrainLossKey[c]}

\* a block of train_agent without the `<component>.eval()` after it
TrainPhaseFrameNoEval(fr, c, e, cf) ==
  IF TrainActive(e, cf, c) THEN TrainComponent(fr, c, cf.steps_per_epoch) ELSE fr

\* One of the three `if epoch > ...: metrics = train_component(...)` blocks of
\* train_agent, followed by `<component>.eval()`
TrainPhaseFrame(fr, c, e, cf) ==
  LET trained == IF TrainActive(e, cf, c)
                   THEN TrainComponent(fr, c, cf.steps_per_epoch)
                   ELSE fr
  IN [trained EXCEPT !.self.mode[c] = "eval"]

TrainPhaseMetrics(c, e, cf) ==
  IF TrainActive(e, cf, c) THEN TrainComponentMetrics(c) ELSE {}

\* the one-element list train_agent returns
TrainAgentReturnValue(e, m) ==
  <<{"epoch"} \cup m["tokenizer"] \cup m["world_model"] \cup m["actor_critic"]>>

----------------------------------------------------------------------------
(* Evaluation *)

\* the metrics mapping eval_component returns
EvalComponentMetrics(c) == {EvalLossKey[c]}

\* episode_id without the multiplication by the batch size
EpisodeIdUnscaled(e, cf, i) == (e - 1 - cf.train_start["actor_critic"]) + i

\* episode_id of inspect_imagination for rollout i of the batch
EpisodeId(e, cf, i) ==
  (e - 1 - cf.train_start["actor_critic"]) * NumImagination + i

\* inspect_imagination: the identifiers saved through the episode manager and
\* the list of per-episode metrics it returns
InspectImagination(e, cf) ==
  [saved |-> [i \in 1..NumImagination |-> EpisodeId(e, cf, i - 1)],
   to_log |-> [i \in 1..NumImagination |-> ImaginationKeys]]

\* eval_component without its traversal of test_dataset
EvalComponentNoTraverse(fr, c) == fr

\* one eval_component call: an exhaustive traversal of test_dataset
EvalComponent(fr, c) ==
  [fr EXCEPT !.calls.traverse = @ + 1]

\* the inspect_imagination call of eval_agent: episodes are saved, and the
\* list the call returns is not used
InspectCall(fr, e, cf) ==
  [fr EXCEPT !.self.imagination = Append(@, InspectImagination(e, cf).saved)]

\* eval_agent: the Trainer and the calls after it, and the list it returns
EvalAgent(fr, e, cf) ==
  LET tok == EvalActive(e, cf, "tokenizer")
      wm == EvalActive(e, cf, "world_model")
      ac == EvalActive(e, cf, "actor_critic")
      f0 == [self |-> [fr.self EXCEPT !.mode = [c \in ComponentSet |-> "eval"]],
             calls |-> [fr.calls EXCEPT !.eval_agent = @ + 1]]
      f1 == IF tok THEN EvalComponent(f0, "tokenizer") ELSE f0
      f2 == IF wm THEN EvalComponent(f1, "world_model") ELSE f1
      f3 == IF ac THEN InspectCall(f2, e, cf) ELSE f2
      metrics_tokenizer == IF tok THEN EvalComponentMetrics("tokenizer") ELSE {}
      metrics_world_model == IF wm THEN EvalComponentMetrics("world_model") ELSE {}
  IN [self |-> f3.self, calls |-> f3.calls,
      ret |-> <<metrics_tokenizer, metrics_world_model>>]

----------------------------------------------------------------------------
(* Checkpoint files *)

File(v, e) == [present |-> TRUE, val |-> v, ep |-> e]

\* save_checkpoint without its backup copy
CopyTreeSkipped(d) == NoTmp

\* shutil.copytree(ckpt_dir, checkpoints_tmp, ignore=ignore_patterns('dataset'))
CopyTree(d) ==
  [present |-> TRUE, last |-> d.last, epoch |-> d.epoch,
   optimizer |-> d.optimizer, num_seen |-> d.num_seen]

\* load_checkpoint, statement by statement: the first statement that finds its
\* artifact missing raises, and what was assigned before stays assigned.
\* r is [ok, self, restored].
\* load_checkpoint resuming at the stored epoch instead of the one after it
LoadEpochSame(d, r) ==
  IF r.ok /\ d.dir /\ d.epoch.present
    THEN [r EXCEPT !.self.start_epoch = d.epoch.val, !.restored.epoch = TRUE]
    ELSE [r EXCEPT !.ok = FALSE]

LoadEpoch(d, r) ==
  IF r.ok /\ d.dir /\ d.epoch.present
    THEN [r EXCEPT !.self.start_epoch = d.epoch.val + 1, !.restored.epoch = TRUE]
    ELSE [r EXCEPT !.ok = FALSE]

LoadAgent(d, r) ==
  IF r.ok /\ d.last.present
    THEN [r EXCEPT !.self.weights = d.last.val, !.restored.last = TRUE]
    ELSE [r EXCEPT !.ok = FALSE]

LoadOptimizers(d, r) ==
  IF r.ok /\ d.optimizer.present
    THEN [r EXCEPT !.self.optimizer = d.optimizer.val, !.restored.optimizer = TRUE]
    ELSE [r EXCEPT !.ok = FALSE]

\* self.train_dataset exists only when training is enabled (__init__)
LoadDataset(d, r) ==
  IF r.ok /\ r.self.train_dataset.exists /\ DatasetLoadable(d)
    THEN [r EXCEPT
            !.self.train_dataset = LoadDiskCheckpoint(@, d.dataset.val),
            !.restored.dataset = TRUE]
    ELSE [r EXCEPT !.ok = FALSE]

\* load_checkpoint skipping a missing seen-episode count instead of raising
LoadNumSeenLenient(d, r, cf) ==
  IF r.ok /\ cf.eval_should /\ d.num_seen.present
    THEN [r EXCEPT
            !.self.test_dataset.num_seen_episodes = d.num_seen.val,
            !.restored.num_seen = TRUE]
    ELSE r

LoadNumSeen(d, r, cf) ==
  IF ~cf.eval_should
    THEN r
    ELSE IF r.ok /\ d.num_seen.present
      THEN [r EXCEPT
              !.self.test_dataset.num_seen_episodes = d.num_seen.val,
              !.restored.num_seen = TRUE]
      ELSE [r EXCEPT !.ok = FALSE]

LoadCheckpoint(d, s, cf) ==
  LoadNumSeen(d,
    LoadDataset(d,
      LoadOptimizers(d,
        LoadAgent(d,
          LoadEpoch(d, [ok |-> TRUE, self |-> s, restored |-> NothingRestored])))),
    cf)

----------------------------------------------------------------------------
(* The process: Trainer() and then Trainer.run() *)

TrainPc ==
  [tokenizer |-> "train_tokenizer", world_model |-> "train_world_model",
   actor_critic |-> "train_actor_critic"]

AfterPhasePc ==
  [tokenizer |-> "train_world_model", world_model |-> "train_actor_critic",
   actor_critic |-> "train_return"]

\* where run goes after its evaluation block
AfterEvalPc(cf) == IF cf.train_should THEN "save_copy" ELSE "log"

\* run checkpointing right after its training block, evaluation left out
AfterTrainPcSaveFirst(cf, e) == AfterEvalPc(cf)

\* where run goes after its training block
AfterTrainPc(cf, e) == IF EvalGate(cf, e) THEN "clear" ELSE AfterEvalPc(cf)

\* where an iteration of run starts
FirstPc(cf, e) ==
  IF cf.train_should
    THEN IF CollectGate(cf, e) THEN "collect_train" ELSE "train_agent"
    ELSE AfterTrainPc(cf, e)

\* __init__ without its assertion on the two switches
SwitchesUnchecked(cf) == TRUE

\* `assert self.cfg.training_settings.should or self.cfg.evaluation_settings.should`
SwitchesOn(cf) == cf.train_should \/ cf.eval_should

\* Trainer.__init__: directories, datasets, the assertion on the two switches,
\* fresh agent and optimizers, and load_checkpoint when resuming
Construct ==
  /\ pc = "new"
  /\ LET made == IF resume THEN disk ELSE [EmptyDisk EXCEPT !.dir = TRUE]
         s0 == [NoTrainer EXCEPT
                  !.train_dataset = IF cfg.train_should THEN NewDataset ELSE NoDataset,
                  !.test_dataset = IF cfg.eval_should THEN NewDataset ELSE NoDataset]
         loaded == LoadCheckpoint(made, s0, cfg)
     IN /\ disk' = made
        /\ IF ~SwitchesOn(cfg)
             THEN /\ pc' = "failed"
                  /\ self' = s0
                  /\ restored' = NothingRestored
             ELSE IF resume
               THEN /\ pc' = IF loaded.ok THEN "loop" ELSE "failed"
                    /\ self' = loaded.self
                    /\ restored' = loaded.restored
               ELSE /\ pc' = "loop"
                    /\ self' = s0
                    /\ restored' = NothingRestored
  /\ UNCHANGED <<cfg, runs, resume, epoch, to_log, wandb_log, events, calls, tmp,
                 metrics, last_save, tc>>

\* `for epoch in range(self.start_epoch, 1 + self.cfg.common.epochs)`
LoopHead ==
  /\ pc = "loop"
  /\ LET e == IF epoch = 0 THEN self.start_epoch ELSE epoch + 1
     IN IF e <= cfg.epochs
          THEN /\ epoch' = e
               /\ pc' = FirstPc(cfg, e)
          ELSE /\ epoch' = epoch
               /\ pc' = "finish"
  /\ to_log' = <<>>
  /\ events' = <<>>
  /\ calls' = NoCalls
  /\ metrics' = NoMetrics
  /\ UNCHANGED <<cfg, runs, resume, self, wandb_log, disk, tmp, restored, last_save, tc>>

\* `to_log += self.train_collector.collect(...)`
CollectTrain ==
  /\ pc = "collect_train"
  /\ self' = [self EXCEPT !.train_dataset = Collect(@)]
  /\ to_log' = Append(to_log, {"train_dataset/return"})
  /\ events' = Append(events, "collect_train")
  /\ calls' = [calls EXCEPT !.train_writes = @ + 1]
  /\ pc' = "train_agent"
  /\ UNCHANGED <<cfg, runs, resume, epoch, wandb_log, disk, tmp, restored, metrics, last_save, tc>>

\* train_agent up to the first gate: agent.train(), agent.zero_grad(), empty metrics
TrainAgentBegin ==
  /\ pc = "train_agent"
  /\ self' = [self EXCEPT !.mode = [c \in ComponentSet |-> "train"]]
  /\ metrics' = NoMetrics
  /\ events' = Append(events, "train_agent")
  /\ pc' = "train_tokenizer"
  /\ UNCHANGED <<cfg, runs, resume, epoch, to_log, wandb_log, calls, disk, tmp,
                 restored, last_save, tc>>

\* one gated train_component call of train_agent and the eval() after it
TrainPhase(c) ==
  /\ pc = TrainPc[c]
  /\ LET fr == TrainPhaseFrame([self |-> self, calls |-> calls], c, epoch, cfg)
     IN /\ self' = fr.self
        /\ calls' = fr.calls
  /\ metrics' = [metrics EXCEPT ![c] = TrainPhaseMetrics(c, epoch, cfg)]
  /\ events' = Append(events, c)
  /\ pc' = AfterPhasePc[c]
  /\ UNCHANGED <<cfg, runs, resume, epoch, to_log, wandb_log, disk, tmp, restored, last_save, tc>>

\* `to_log += self.train_agent(epoch)`
TrainAgentReturn ==
  /\ pc = "train_return"
  /\ to_log' = to_log \o TrainAgentReturnValue(epoch, metrics)
  /\ pc' = AfterTrainPc(cfg, epoch)
  /\ UNCHANGED <<cfg, runs, resume, self, epoch, wandb_log, events, calls, disk, tmp,
                 restored, metrics, last_save, tc>>

\* `self.test_dataset.clear()`
ClearTest ==
  /\ pc = "clear"
  /\ self' = [self EXCEPT !.test_dataset = Clear(@)]
  /\ events' = Append(events, "clear")
  /\ calls' = [calls EXCEPT !.test_writes = @ + 1]
  /\ pc' = "collect_test"
  /\ UNCHANGED <<cfg, runs, resume, epoch, to_log, wandb_log, disk, tmp, restored,
                 metrics, last_save, tc>>

\* `to_log += self.test_collector.collect(...)`
CollectTest ==
  /\ pc = "collect_test"
  /\ self' = [self EXCEPT !.test_dataset = Collect(@)]
  /\ to_log' = Append(to_log, {"test_dataset/return"})
  /\ events' = Append(events, "collect_test")
  /\ calls' = [calls EXCEPT !.test_writes = @ + 1]
  /\ pc' = "eval_agent"
  /\ UNCHANGED <<cfg, runs, resume, epoch, wandb_log, disk, tmp, restored, metrics, last_save, tc>>

\* `to_log += self.eval_agent(epoch)`
EvalAgentCall ==
  /\ pc = "eval_agent"
  /\ LET r == EvalAgent([self |-> self, calls |-> calls], epoch, cfg)
     IN /\ self' = r.self
        /\ calls' = r.calls
        /\ to_log' = to_log \o r.ret
  /\ events' = Append(events, "eval_agent")
  /\ pc' = AfterEvalPc(cfg)
  /\ UNCHANGED <<cfg, runs, resume, epoch, wandb_log, disk, tmp, restored, metrics, last_save, tc>>

----------------------------------------------------------------------------
(* save_checkpoint: backup, the writes of _save_checkpoint, backup removal *)

WriteLast(d, s, e) == [d EXCEPT !.last = File(s.weights, e)]

WriteEpoch(d, e) == [d EXCEPT !.epoch = File(e, e)]

WriteOptimizer(d, s, e) == [d EXCEPT !.optimizer = File(s.optimizer, e)]

WriteDataset(d, s, e) ==
  [d EXCEPT !.dataset = File(UpdateDiskCheckpoint(s.train_dataset), e)]

WriteNumSeen(d, s, e) ==
  [d EXCEPT !.num_seen = File(s.test_dataset.num_seen_episodes, e)]

\* _save_checkpoint without its `if not save_agent_only:`
AfterLastPcFull(agent_only) == "save_epoch"

\* `if not save_agent_only:` of _save_checkpoint
AfterLastPc(agent_only) == IF agent_only THEN "save_rm" ELSE "save_epoch"

\* `if self.cfg.evaluation_settings.should:` of _save_checkpoint
AfterDatasetPc(cf) == IF cf.eval_should THEN "save_num_seen" ELSE "save_rm"

\* a copytree that overwrites an existing checkpoints_tmp
SaveCopyOverwrite ==
  /\ pc = "save_copy"
  /\ events' = Append(events, "save_checkpoint")
  /\ pc' = "save_last"
  /\ tmp' = CopyTree(disk)
  /\ UNCHANGED <<cfg, runs, resume, self, epoch, to_log, wandb_log, calls, disk,
                 restored, metrics, last_save, tc>>

\* shutil.copytree raises FileExistsError when checkpoints_tmp exists
SaveCopy ==
  /\ pc = "save_copy"
  /\ events' = Append(events, "save_checkpoint")
  /\ IF tmp.present
       THEN /\ pc' = "failed"
            /\ tmp' = tmp
       ELSE /\ pc' = "save_last"
            /\ tmp' = CopyTree(disk)
  /\ UNCHANGED <<cfg, runs, resume, self, epoch, to_log, wandb_log, calls, disk,
                 restored, metrics, last_save, tc>>

SaveLast ==
  /\ pc = "save_last"
  /\ disk' = WriteLast(disk, self, epoch)
  /\ pc' = AfterLastPc(SaveAgentOnly(cfg))
  /\ UNCHANGED <<cfg, runs, resume, self, epoch, to_log, wandb_log, events, calls, tmp,
                 restored, metrics, last_save, tc>>

SaveEpoch ==
  /\ pc = "save_epoch"
  /\ disk' = WriteEpoch(disk, epoch)
  /\ pc' = "save_optimizer"
  /\ UNCHANGED <<cfg, runs, resume, self, epoch, to_log, wandb_log, events, calls, tmp,
                 restored, metrics, last_save, tc>>

SaveOptimizer ==
  /\ pc = "save_optimizer"
  /\ disk' = WriteOptimizer(disk, self, epoch)
  /\ pc' = "save_dataset"
  /\ UNCHANGED <<cfg, runs, resume, self, epoch, to_log, wandb_log, events, calls, tmp,
                 restored, metrics, last_save, tc>>

SaveDataset ==
  /\ pc = "save_dataset"
  /\ disk' = WriteDataset(disk, self, epoch)
  /\ pc' = AfterDatasetPc(cfg)
  /\ UNCHANGED <<cfg, runs, resume, self, epoch, to_log, wandb_log, events, calls, tmp,
                 restored, metrics, last_save, tc>>

SaveNumSeen ==
  /\ pc = "save_num_seen"
  /\ disk' = WriteNumSeen(disk, self, epoch)
  /\ pc' = "save_rm"
  /\ UNCHANGED <<cfg, runs, resume, self, epoch, to_log, wandb_log, events, calls, tmp,
                 restored, metrics, last_save, tc>>

\* shutil.rmtree(tmp_checkpoint_dir)
SaveRemoveTmp ==
  /\ pc = "save_rm"
  /\ tmp' = NoTmp
  /\ last_save' = [done |-> TRUE, epoch |-> epoch,
                   agent_only |-> SaveAgentOnly(cfg), self |-> self]
  /\ events' = Append(events, "saved")
  /\ pc' = "log"
  /\ UNCHANGED <<cfg, runs, resume, self, epoch, to_log, wandb_log, calls, disk,
                 restored, metrics, tc>>

\* the records of one iteration as handed to wandb.log
Logged(e, records) ==
  [i \in 1..Len(records) |-> [epoch |-> e, keys |-> records[i] \cup {"epoch"}]]

\* `to_log.append({'duration': ...})` and the wandb.log loop
Log ==
  /\ pc = "log"
  /\ to_log' = Append(to_log, {"duration"})
  /\ wandb_log' = wandb_log \o Logged(epoch, to_log')
  /\ events' = Append(events, "log")
  /\ pc' = "loop"
  /\ UNCHANGED <<cfg, runs, resume, self, epoch, calls, disk, tmp, restored, metrics, last_save, tc>>

\* self.finish()
Finish ==
  /\ pc = "finish"
  /\ pc' = "done"
  /\ UNCHANGED <<cfg, runs, resume, self, epoch, to_log, wandb_log, events, calls,
                 disk, tmp, restored, metrics, last_save, tc>>

\* positions of save_checkpoint after the backup copy: before, between and
\* after the writes of _save_checkpoint
WritePcs ==
  {"save_last", "save_epoch", "save_optimizer", "save_dataset", "save_num_seen",
   "save_rm"}

\* A write of _save_checkpoint raises, or the process is interrupted there:
\* no handler catches it and the process ends.
SaveFails ==
  /\ pc \in WritePcs
  /\ pc' = "failed"
  /\ UNCHANGED <<cfg, runs, resume, self, epoch, to_log, wandb_log, events, calls,
                 disk, tmp, restored, metrics, last_save, tc>>

\* A new process on the same output directory with common.resume set; the
\* operator may have switched training_settings.should and
\* common.do_checkpoint in between, and may have added an epoch to
\* common.epochs.
Resume ==
  /\ pc \in {"failed", "done"}
  /\ runs < MaxRuns
  /\ runs' = runs + 1
  /\ resume' = TRUE
  /\ \E b, ck \in BOOLEAN, more \in 0..1 :
       cfg' = [cfg EXCEPT !.train_should = b, !.do_checkpoint = ck,
                          !.epochs = @ + more]
  /\ pc' = "new"
  /\ self' = NoTrainer
  /\ epoch' = 0
  /\ to_log' = <<>>
  /\ wandb_log' = <<>>
  /\ events' = <<>>
  /\ calls' = NoCalls
  /\ restored' = NothingRestored
  /\ metrics' = NoMetrics
  /\ UNCHANGED <<disk, tmp, last_save, tc>>

----------------------------------------------------------------------------
(* Specifications *)

Thresholds == [ComponentSet -> 0..MaxStart]

\* configurations of the epoch scheduler
SchedulerConfigs ==
  [train_should : BOOLEAN, eval_should : BOOLEAN, do_checkpoint : BOOLEAN,
   epochs : {MaxEpochs}, every : 1..MaxEvery, stop_after_epochs : {1},
   train_start : Thresholds, eval_start : Thresholds,
   steps_per_epoch : 1..MaxSteps]

\* training thresholds of the checkpoint scenarios: the world model starts one
\* epoch after the others, so that the three optimizer states differ
CkptStart == [tokenizer |-> 0, world_model |-> 1, actor_critic |-> 0]

\* configurations of the checkpoint scenarios, evaluation in every epoch
CkptConfigs ==
  [train_should : BOOLEAN, eval_should : BOOLEAN, do_checkpoint : BOOLEAN,
   epochs : {CkptEpochs}, every : {1}, stop_after_epochs : {1},
   train_start : {CkptStart}, eval_start : {ZeroPerComponent},
   steps_per_epoch : {1}]

InitProcess ==
  /\ runs = 1
  /\ self = NoTrainer
  /\ epoch = 0
  /\ to_log = <<>>
  /\ wandb_log = <<>>
  /\ events = <<>>
  /\ calls = NoCalls
  /\ disk = EmptyDisk
  /\ tmp = NoTmp
  /\ restored = NothingRestored
  /\ metrics = NoMetrics
  /\ last_save = NoSave

Init ==
  /\ cfg \in SchedulerConfigs
  /\ resume = FALSE
  /\ pc = "new"
  /\ tc = IdleTC
  /\ InitProcess

Run ==
  \/ Construct
  \/ LoopHead
  \/ CollectTrain
  \/ TrainAgentBegin
  \/ \E c \in ComponentSet : TrainPhase(c)
  \/ TrainAgentReturn
  \/ ClearTest
  \/ CollectTest
  \/ EvalAgentCall
  \/ SaveCopy
  \/ SaveLast
  \/ SaveEpoch
  \/ SaveOptimizer
  \/ SaveDataset
  \/ SaveNumSeen
  \/ SaveRemoveTmp
  \/ Log
  \/ Finish

Next == Run

Spec == Init /\ [][Next]_vars

InitCkpt ==
  /\ cfg \in CkptConfigs
  /\ resume \in BOOLEAN
  /\ pc = "new"
  /\ tc = IdleTC
  /\ InitProcess

NextCkpt == Run \/ SaveFails \/ Resume

SpecCkpt == InitCkpt /\ [][NextCkpt]_vars

----------------------------------------------------------------------------
(* train_component, statement by statement (SpecTC).  Losses are exact     *)
(* fractions [num, den] kept in lowest terms.                              *)

RECURSIVE GCD(_, _)
GCD(a, b) == IF b = 0 THEN a ELSE GCD(b, a % b)

Frac(n, d) == LET g == GCD(n, d) IN [num |-> n \div g, den |-> d \div g]

FracAdd(a, b) == Frac(a.num * b.den + b.num * a.den, a.den * b.den)

FracDiv(a, n) == Frac(a.num, a.den * n)

\* the loss of a sub-step without the division by grad_acc_steps
UnscaledLoss(loss_total, grad_acc_steps) == Frac(loss_total, 1)

\* `losses = component.compute_loss(batch, **kwargs_loss) / grad_acc_steps`
ScaledLoss(loss_total, grad_acc_steps) == FracDiv(Frac(loss_total, 1), grad_acc_steps)

\* `loss_total_epoch += loss_total_step.item() / steps_per_epoch`
AddToEpoch(loss_total_epoch, loss_total_step, steps_per_epoch) ==
  FracAdd(loss_total_epoch, FracDiv(loss_total_step, steps_per_epoch))

\* the arguments of a call and the locals at its first statement; L[i] is the
\* total loss compute_loss yields for every batch drawn during step i
TCFrames ==
  { [pc |-> "zero_grad", steps_per_epoch |-> S, grad_acc_steps |-> G,
     max_grad_norm |-> clip, L |-> l, i |-> 0, j |-> 0,
     loss_total_epoch |-> Frac(0, 1), grads |-> 0, trace |-> <<>>,
     ret |-> Frac(0, 1)] :
      S \in 1..MaxSteps, G \in 1..MaxGradAcc, clip \in BOOLEAN,
      l \in UNION {[1..n -> 1..MaxLoss] : n \in 1..MaxSteps} }

\* `optimizer.zero_grad()`
TCZeroGrad ==
  /\ tc.pc = "zero_grad"
  /\ tc' = [tc EXCEPT !.grads = 0, !.j = 0,
                      !.trace = Append(@, "zero_grad"),
                      !.pc = IF tc.grad_acc_steps > 0 THEN "sub_step" ELSE "clip"]
  /\ UNCHANGED <<cfg, pc, runs, resume, self, epoch, to_log, wandb_log, events, calls,
                 disk, tmp, restored, metrics, last_save>>

\* one iteration of `for _ in range(grad_acc_steps)`: sample_batch,
\* compute_loss, backward, and the running epoch loss
TCSubStep ==
  /\ tc.pc = "sub_step"
  /\ LET loss_total_step == ScaledLoss(tc.L[tc.i + 1], tc.grad_acc_steps)
     IN tc' = [tc EXCEPT
                 !.loss_total_epoch =
                    AddToEpoch(@, loss_total_step, tc.steps_per_epoch),
                 !.grads = @ + 1,
                 !.j = @ + 1,
                 !.trace = Append(@, "sample_batch"),
                 !.pc = IF tc.j + 1 < tc.grad_acc_steps THEN "sub_step" ELSE "clip"]
  /\ UNCHANGED <<cfg, pc, runs, resume, self, epoch, to_log, wandb_log, events, calls,
                 disk, tmp, restored, metrics, last_save>>

\* gradient clipping whether or not max_grad_norm is set
TCClipAlways ==
  /\ tc.pc = "clip"
  /\ tc' = [tc EXCEPT !.trace = Append(@, "clip_grad_norm"), !.pc = "step"]
  /\ UNCHANGED <<cfg, pc, runs, resume, self, epoch, to_log, wandb_log, events, calls,
                 disk, tmp, restored, metrics, last_save>>

\* `if max_grad_norm is not None: clip_grad_norm_(...)`
TCClip ==
  /\ tc.pc = "clip"
  /\ tc' = [tc EXCEPT
              !.trace = IF tc.max_grad_norm THEN Append(@, "clip_grad_norm") ELSE @,
              !.pc = "step"]
  /\ UNCHANGED <<cfg, pc, runs, resume, self, epoch, to_log, wandb_log, events, calls,
                 disk, tmp, restored, metrics, last_save>>

\* `optimizer.step()` and the head of `for _ in range(steps_per_epoch)`
TCOptimizerStep ==
  /\ tc.pc = "step"
  /\ tc' = [tc EXCEPT
              !.i = @ + 1,
              !.trace = Append(@, "step"),
              !.pc = IF tc.i + 1 < tc.steps_per_epoch THEN "zero_grad" ELSE "return"]
  /\ UNCHANGED <<cfg, pc, runs, resume, self, epoch, to_log, wandb_log, events, calls,
                 disk, tmp, restored, metrics, last_save>>

\* `metrics = {f'{str(component)}/train/total_loss': loss_total_epoch, ...}`
TCReturn ==
  /\ tc.pc = "return"
  /\ tc' = [tc EXCEPT !.ret = tc.loss_total_epoch, !.pc = "done"]
  /\ UNCHANGED <<cfg, pc, runs, resume, self, epoch, to_log, wandb_log, events, calls,
                 disk, tmp, restored, metrics, last_save>>

InitTC ==
  /\ cfg = CHOOSE c \in CkptConfigs : c.train_should /\ c.eval_should /\ c.do_checkpoint
  /\ resume = FALSE
  /\ pc = "train_component"
  /\ tc \in {f \in TCFrames : Len(f.L) = f.steps_per_epoch}
  /\ InitProcess

NextTC == TCZeroGrad \/ TCSubStep \/ TCClip \/ TCOptimizerStep \/ TCReturn

SpecTC == InitTC /\ [][NextTC]_vars

----------------------------------------------------------------------------
(* eval_component, batch by batch (SpecEC) *)

\* a division by one more than the number of batches traversed
EvalAverageOffByOne(total, steps) == Frac(total, steps + 1)

\* `loss_total_epoch / steps` and `v / steps`
EvalAverage(total, steps) == Frac(total, steps)

\* the locals of a call at its first statement; batches[n] holds the total
\* loss and the value of one intermediate loss of compute_loss on the n-th
\* batch of the traversal; steps_per_epoch is the configured step count of
\* the component's training
ECFrames ==
  { [pc |-> "traverse", batches |-> b, steps_per_epoch |-> S,
     loss_total_epoch |-> 0, intermediate_losses |-> 0, steps |-> 0,
     total_loss |-> Frac(0, 1), intermediate |-> Frac(0, 1)] :
      S \in 1..MaxSteps,
      b \in UNION {[1..k -> [loss_total : 1..MaxLoss, loss : 0..MaxLoss]] :
                     k \in 1..MaxBatches} }

\* one iteration of `for batch in self.test_dataset.traverse(...)`
ECBatch ==
  /\ tc.pc = "traverse"
  /\ tc.steps < Len(tc.batches)
  /\ LET losses == tc.batches[tc.steps + 1]
     IN tc' = [tc EXCEPT
                 !.loss_total_epoch = @ + losses.loss_total,
                 !.intermediate_losses = @ + losses.loss,
                 !.steps = @ + 1]
  /\ UNCHANGED <<cfg, pc, runs, resume, self, epoch, to_log, wandb_log, events, calls,
                 disk, tmp, restored, metrics, last_save>>

\* the traversal is exhausted: the averages and the returned metrics
ECReturn ==
  /\ tc.pc = "traverse"
  /\ tc.steps = Len(tc.batches)
  /\ tc' = [tc EXCEPT
              !.total_loss = EvalAverage(tc.loss_total_epoch, tc.steps),
              !.intermediate = EvalAverage(tc.intermediate_losses, tc.steps),
              !.pc = "returned"]
  /\ UNCHANGED <<cfg, pc, runs, resume, self, epoch, to_log, wandb_log, events, calls,
                 disk, tmp, restored, metrics, last_save>>

InitEC ==
  /\ cfg = CHOOSE c \in CkptConfigs : c.train_should /\ c.eval_should /\ c.do_checkpoint
  /\ resume = FALSE
  /\ pc = "eval_component"
  /\ tc \in ECFrames
  /\ InitProcess

NextEC == ECBatch \/ ECReturn

SpecEC == InitEC /\ [][NextEC]_vars

----------------------------------------------------------------------------
(* Properties of the epoch scheduler (Spec) *)

Range(seq) == {seq[i] : i \in 1..Len(seq)}

\* the train_agent call of the current iteration has handled component c
PhaseDone(c) == c \in Range(events)

\* the records train_agent put into to_log (the ones it tags with 'epoch')
TrainRecords == {to_log[i] : i \in {k \in 1..Len(to_log) : "epoch" \in to_log[k]}}

\* the records handed to wandb.log for epoch e
LoggedFor(e) ==
  {wandb_log[i].keys : i \in {k \in 1..Len(wandb_log) : wandb_log[k].epoch = e}}

\* C1: in an epoch e <= start_after_epochs of a component, train_agent does not
\* train the component: its optimizer receives no zero_grad and no step call
\* and keeps its state, and the component has no key in the epoch's training
\* record, neither in to_log nor in what is handed to wandb.log.
C1_InactiveComponentUntouched ==
  \A c \in ComponentSet :
    (epoch >= 1 /\ epoch <= cfg.train_start[c]) =>
      /\ calls.zero_grad[c] = 0
      /\ calls.step[c] = 0
      /\ self.optimizer[c] = NoTrainer.optimizer[c]
      /\ metrics[c] = {}
      /\ \A r \in TrainRecords \cup LoggedFor(epoch) : TrainLossKey[c] \notin r

\* train_agent has returned in an epoch in which one component was below its
\* threshold while another was trained
C1_Witness ==
  /\ pc = "log"
  /\ TrainRecords # {}
  /\ \E c, o \in ComponentSet :
       /\ epoch <= cfg.train_start[c]
       /\ PhaseDone(c)
       /\ calls.step[o] > 0

\* C9: staggered activation.  Once train_agent has handled a component in
\* epoch e, the component was trained exactly when e > start_after_epochs; a
\* trained component took exactly steps_per_epoch optimizer steps and has its
\* total_loss key in the epoch's training record, an untrained one took no
\* step and has no key there.
C9_StaggeredActivation ==
  \A c \in ComponentSet :
    PhaseDone(c) =>
      /\ (epoch > cfg.train_start[c]) =>
            /\ calls.step[c] = cfg.steps_per_epoch
            /\ TrainLossKey[c] \in metrics[c]
            /\ \A r \in TrainRecords : TrainLossKey[c] \in r
      /\ (epoch <= cfg.train_start[c]) =>
            /\ calls.step[c] = 0
            /\ TrainLossKey[c] \notin metrics[c]
            /\ \A r \in TrainRecords : TrainLossKey[c] \notin r

\* an epoch whose training record holds the tokenizer's key only, in a run
\* configured with two optimizer steps per epoch
C9_Witness ==
  /\ pc = "log"
  /\ cfg.steps_per_epoch = 2
  /\ calls.step = [tokenizer |-> 2, world_model |-> 0, actor_critic |-> 0]
  /\ TrainRecords = {{"epoch", TrainLossKey["tokenizer"]}}

\* C6: evaluation gate.  With evaluation enabled, eval_agent never runs more
\* than once in an epoch; when it has run, the epoch is a multiple of `every`
\* and the evaluation dataset was cleared and then filled by the collector
\* before it; at the end of an epoch that is a multiple of `every` it has run
\* exactly once; and at the end of any other epoch the evaluation dataset was
\* neither written nor traversed and no evaluation key was handed to wandb.log.
EvalEvents == {"clear", "collect_test", "eval_agent"}

IsEvalEvent(x) == x \in EvalEvents

EvalKeys == {EvalLossKey[c] : c \in ComponentSet} \cup {"test_dataset/return"}

EpochOver == pc = "loop" /\ epoch >= 1

C6_EvaluationGate ==
  cfg.eval_should =>
    /\ calls.eval_agent <= 1
    /\ calls.eval_agent = 1 =>
          /\ epoch % cfg.every = 0
          /\ SelectSeq(events, IsEvalEvent) = <<"clear", "collect_test", "eval_agent">>
    /\ (EpochOver /\ epoch % cfg.every = 0) => calls.eval_agent = 1
    /\ (epoch >= 1 /\ epoch % cfg.every # 0) =>
          /\ calls.eval_agent = 0
          /\ calls.test_writes = 0
          /\ calls.traverse = 0
          /\ Range(events) \cap EvalEvents = {}
          /\ \A r \in LoggedFor(epoch) : r \cap EvalKeys = {}

\* with every = 2: epoch 2 is over and evaluation ran in it, after epoch 1
\* was logged without it
C6_Witness ==
  /\ EpochOver
  /\ cfg.eval_should
  /\ cfg.every = 2
  /\ epoch = 2
  /\ calls.eval_agent = 1
  /\ LoggedFor(1) # {}
  /\ \E r \in LoggedFor(2) : r \cap EvalKeys # {}

EvalAgentRan == "eval_agent" \in Range(events)

LossEvaluated == {c \in {"tokenizer", "world_model"} : epoch > cfg.eval_start[c]}

\* C7 as claimed: in an evaluation epoch whose index exceeds the evaluation
\* thresholds of the tokenizer and of the world model, the whole eval_agent
\* call traverses the evaluation dataset exactly one time.
C7_SingleTraversal ==
  (EvalAgentRan /\ LossEvaluated = {"tokenizer", "world_model"}) =>
    calls.traverse = 1

\* C7 amended: eval_agent traverses the evaluation dataset once for each of
\* tokenizer and world model whose evaluation threshold is below the epoch,
\* and not otherwise: two traversals when both are, one when one is, none
\* when neither is, whatever the actor-critic threshold.
C7_TraversalPerComponent ==
  EvalAgentRan => calls.traverse = Cardinality(LossEvaluated)

\* eval_agent has run with both thresholds below the epoch
C7_Witness ==
  /\ EvalAgentRan
  /\ LossEvaluated = {"tokenizer", "world_model"}
  /\ calls.traverse = 2
  /\ calls.eval_agent = 1

\* C8: at the end of an evaluation epoch whose index exceeds the actor-critic
\* evaluation threshold, the imagination metrics of inspect_imagination are
\* among the records handed to wandb.log for the epoch.
C8_ImaginationLogged ==
  (EpochOver /\ EvalAgentRan /\ epoch > cfg.eval_start["actor_critic"]) =>
    \E r \in LoggedFor(epoch) : ImaginationKeys \subseteq r

----------------------------------------------------------------------------
(* Properties of the checkpoint manager (SpecCkpt) *)

\* the current process resumed, and its load_checkpoint has returned without
\* raising and no iteration of run has started yet
JustLoaded == resume /\ epoch = 0 /\ pc \in {"loop", "finish", "done"}

\* the last save_checkpoint that returned was a full one, and no later save
\* has written to the directory
LastSaveIsOnDisk ==
  /\ last_save.done
  /\ ~last_save.agent_only
  /\ disk.last.ep = last_save.epoch

\* C2: checkpoint round trip.  When load_checkpoint returns on a directory
\* whose last writer was a full save_checkpoint(E) that completed, start_epoch
\* is E + 1, the three optimizer states are the ones the Trainer had when the
\* save returned, and the training dataset holds as many episodes as it did
\* then.
C2_RoundTrip ==
  (JustLoaded /\ LastSaveIsOnDisk) =>
    /\ self.start_epoch = last_save.epoch + 1
    /\ self.optimizer = last_save.self.optimizer
    /\ self.train_dataset.len = last_save.self.train_dataset.len

\* a process resumed after the full save of the last epoch, with optimizers
\* that took steps and differ from each other
C2_Witness ==
  /\ JustLoaded
  /\ LastSaveIsOnDisk
  /\ last_save.epoch = cfg.epochs
  /\ self.start_epoch = cfg.epochs + 1
  /\ self.optimizer["tokenizer"] > self.optimizer["world_model"]
  /\ self.optimizer["world_model"] > 0
  /\ self.train_dataset.len > 0

\* C3: checkpoint validity.  Whenever load_checkpoint succeeds, the weights,
\* the epoch counter, the optimizer states and the dataset state are all
\* present and were all written by the save of the same epoch.
C3_LoadedCheckpointConsistent ==
  JustLoaded =>
    /\ disk.last.present /\ disk.epoch.present
    /\ disk.optimizer.present /\ disk.dataset.present
    /\ disk.last.ep = disk.epoch.ep
    /\ disk.optimizer.ep = disk.epoch.ep
    /\ disk.dataset.ep = disk.epoch.ep

\* the writes the current save_checkpoint(epoch) has to make are all on disk
WritesDone ==
  /\ disk.last.present /\ disk.last.ep = epoch
  /\ ~SaveAgentOnly(cfg) =>
        /\ disk.epoch.present /\ disk.epoch.ep = epoch
        /\ disk.optimizer.present /\ disk.optimizer.ep = epoch
        /\ disk.dataset.present /\ disk.dataset.ep = epoch
        /\ cfg.eval_should => (disk.num_seen.present /\ disk.num_seen.ep = epoch)

\* the process ended inside save_checkpoint
FailedInSave == pc = "failed" /\ "save_checkpoint" \in Range(events)

\* a step of the running process that changes a file of the checkpoint directory
PrimaryWrite ==
  /\ pc # "new"
  /\ <<disk'.last, disk'.epoch, disk'.optimizer, disk'.dataset, disk'.num_seen>>
       # <<disk.last, disk.epoch, disk.optimizer, disk.dataset, disk.num_seen>>

\* C4: backup-then-replace.  Before the first write of a save the backup is a
\* complete copy of the checkpoint directory (without dataset/); every write
\* to the directory happens while the backup exists; the backup is removed
\* only by a save all of whose writes are on disk; and a process that ended
\* inside save_checkpoint leaves the backup in place, the directory holding
\* whatever the writes before the failure put there.
C4_BackupDiscipline ==
  /\ [](pc = "save_last" => tmp = CopyTree(disk))
  /\ [](FailedInSave => tmp.present)
  /\ [][PrimaryWrite => (tmp.present /\ tmp'.present)]_vars
  /\ [][(tmp.present /\ ~tmp'.present) => (pc = "save_rm" /\ WritesDone)]_vars
  /\ [][(pc # "new" /\ pc' = "failed") => (tmp' = tmp /\ disk' = disk)]_vars

\* a full save of the second epoch failed after it had overwritten the
\* weights and the epoch counter: the backup still holds the first epoch's
C4_Witness ==
  /\ FailedInSave
  /\ ~SaveAgentOnly(cfg)
  /\ disk.epoch.ep = 2
  /\ disk.optimizer.ep = 1
  /\ tmp.present
  /\ tmp.epoch.ep = 1
  /\ tmp.last.ep = 1

\* something load_checkpoint needs is not in the checkpoint directory
ArtifactMissing ==
  \/ ~disk.dir
  \/ ~disk.epoch.present
  \/ ~disk.last.present
  \/ ~disk.optimizer.present
  \/ ~disk.dataset.present
  \/ cfg.eval_should /\ ~disk.num_seen.present

FullyRestored ==
  /\ restored.epoch /\ restored.last /\ restored.optimizer /\ restored.dataset
  /\ cfg.eval_should => restored.num_seen

\* C5: loading is all-or-nothing.  A resumed process whose checkpoint
\* directory lacks the directory itself, the epoch counter, the weights, the
\* optimizer artifact, the dataset subdirectory or (with evaluation enabled)
\* the seen-episode count ends in __init__ and runs no epoch; and a resumed
\* process that got past __init__ restored every one of them.
C5_LoadAllOrNothing ==
  /\ (resume /\ pc # "new" /\ epoch = 0 /\ ArtifactMissing) => pc = "failed"
  /\ (resume /\ pc \notin {"new", "failed"}) => FullyRestored
  /\ (resume /\ epoch >= 1) => FullyRestored

\* a resumed process died in load_checkpoint at the seen-episode count, after
\* it had restored epoch, weights, optimizers and dataset
C5_Witness ==
  /\ resume
  /\ pc = "failed"
  /\ epoch = 0
  /\ cfg.eval_should
  /\ ~disk.num_seen.present
  /\ restored.dataset
  /\ self.start_epoch = 2

----------------------------------------------------------------------------
(* Properties of train_component (SpecTC) *)

RECURSIVE SumTo(_, _)
SumTo(l, n) == IF n = 0 THEN 0 ELSE l[n] + SumTo(l, n - 1)

\* C10: loss aggregation.  When every batch drawn during step i yields total
\* loss L[i], the total_loss train_component returns is (L[1] + ... + L[S]) / S
\* as an exact fraction, for every accumulation factor.
C10_LossAggregation ==
  tc.pc = "done" =>
    tc.ret = Frac(SumTo(tc.L, tc.steps_per_epoch), tc.steps_per_epoch)

\* a call with two steps of different loss and two accumulation sub-steps per
\* step has returned, the average not being a whole number
C10_Witness ==
  /\ tc.pc = "done"
  /\ tc.steps_per_epoch = 2
  /\ tc.grad_acc_steps = 2
  /\ tc.L = <<1, 2>>
  /\ tc.ret = [num |-> 3, den |-> 2]
  /\ Len(tc.trace) = 8

----------------------------------------------------------------------------
(* Further properties of the epoch scheduler (Spec) *)

ComponentOrder == <<"tokenizer", "world_model", "actor_critic">>

IsComponent(x) == x \in ComponentSet

IsPrefix(a, b) == Len(a) <= Len(b) /\ SubSeq(b, 1, Len(a)) = a

\* C11: train_agent handles tokenizer, world model, actor-critic in this
\* order; a component it has handled is in evaluation mode, trained or not,
\* until the next train_agent call; so the world model's training block
\* starts with the tokenizer in evaluation mode, the actor-critic's with
\* tokenizer and world model in evaluation mode, and train_agent returns with
\* all three in evaluation mode.
C11_EvalModeAfterPhase ==
  /\ IsPrefix(SelectSeq(events, IsComponent), ComponentOrder)
  /\ \A c \in ComponentSet : PhaseDone(c) => self.mode[c] = "eval"
  /\ pc = "train_world_model" => self.mode["tokenizer"] = "eval"
  /\ pc = "train_actor_critic" =>
        (self.mode["tokenizer"] = "eval" /\ self.mode["world_model"] = "eval")
  /\ pc = "train_return" => \A c \in ComponentSet : self.mode[c] = "eval"

\* the actor-critic is about to be trained after a tokenizer that was trained
\* and a world model that was skipped, both in evaluation mode
C11_Witness ==
  /\ pc = "train_actor_critic"
  /\ TrainActive(epoch, cfg, "actor_critic")
  /\ TrainActive(epoch, cfg, "tokenizer")
  /\ ~TrainActive(epoch, cfg, "world_model")
  /\ calls.step["tokenizer"] > 0
  /\ self.mode = [tokenizer |-> "eval", world_model |-> "eval", actor_critic |-> "train"]

\* the operations of an iteration of run, in the order of the code
EpochOrder ==
  <<"collect_train", "train_agent", "tokenizer", "world_model", "actor_critic",
    "clear", "collect_test", "eval_agent", "save_checkpoint", "saved", "log">>

Rank(x) == CHOOSE i \in 1..Len(EpochOrder) : EpochOrder[i] = x

SaveStarted == "save_checkpoint" \in Range(events)

\* C12: phase serialization.  The operations of an epoch happen in the order
\* train collection, tokenizer, world model, actor-critic, clear, test
\* collection, evaluation, checkpoint save, metrics emission, none twice;
\* save_checkpoint starts only when the three training blocks are done and,
\* in an evaluation epoch, eval_agent has returned; and the training dataset
\* changes only in the collection step, before train_agent has started.
C12_PhaseSerialization ==
  /\ [](\A i, j \in 1..Len(events) : i < j => Rank(events[i]) < Rank(events[j]))
  /\ [](SaveStarted =>
          /\ \A c \in ComponentSet : PhaseDone(c)
          /\ EvalGate(cfg, epoch) => EvalAgentRan)
  /\ []("log" \in Range(events) => (cfg.train_should => "saved" \in Range(events)))
  /\ [][(pc # "new" /\ self'.train_dataset # self.train_dataset) =>
          (pc = "collect_train" /\ events = <<>>)]_vars

\* an epoch in which all eleven operations happened is over
C12_Witness ==
  /\ EpochOver
  /\ events = EpochOrder
  /\ calls.train_writes = 1

ImaginationIds(e) ==
  [i \in 1..NumImagination |->
     (e - 1 - cfg.train_start["actor_critic"]) * NumImagination + (i - 1)]

\* C13: every inspect_imagination call saves exactly NumImagination episodes;
\* the call of epoch e saves the identifiers
\* (e - 1 - training start_after_epochs of the actor-critic) * N + i for
\* i = 0..N-1; and every identifier of a later call of the process is greater
\* than every identifier of an earlier one.
C13_ImaginationIdentifiers ==
  /\ \A k \in 1..Len(self.imagination) : Len(self.imagination[k]) = NumImagination
  /\ (EvalAgentRan /\ epoch > cfg.eval_start["actor_critic"]) =>
        /\ Len(self.imagination) >= 1
        /\ self.imagination[Len(self.imagination)] = ImaginationIds(epoch)
  /\ \A k, l \in 1..Len(self.imagination) :
        k < l => \A i, j \in 1..NumImagination :
                   self.imagination[k][i] < self.imagination[l][j]

\* the process has inspected imagination in three epochs
C13_Witness ==
  /\ EvalAgentRan
  /\ Len(self.imagination) = 3
  /\ self.imagination[1] = ImaginationIds(1)
  /\ self.imagination[3] = ImaginationIds(3)

\* C14: with neither training nor evaluation enabled __init__ ends in its
\* assertion: no iteration of run starts, nothing is collected, trained,
\* evaluated, checkpointed or logged; with at least one of them enabled a
\* process that does not resume gets past __init__'s assertion.
C14_SwitchPrecondition ==
  /\ ~(cfg.train_should \/ cfg.eval_should) =>
        /\ pc \in {"new", "failed"}
        /\ epoch = 0
        /\ events = <<>>
        /\ wandb_log = <<>>
        /\ calls = NoCalls
        /\ ~disk.last.present
        /\ ~tmp.present
  /\ ((cfg.train_should \/ cfg.eval_should) /\ ~resume /\ epoch = 0) => pc # "failed"

\* __init__ has failed on a configuration with both switches off
C14_Witness ==
  /\ pc = "failed"
  /\ ~cfg.train_should
  /\ ~cfg.eval_should
  /\ disk.dir
  /\ ~self.train_dataset.exists
  /\ ~self.test_dataset.exists

----------------------------------------------------------------------------
(* The step protocol of train_component (SpecTC) *)

\* the calls of one optimization step with G accumulation sub-steps
StepCalls(G, clip) ==
  <<"zero_grad">> \o [k \in 1..G |-> "sample_batch"] \o
  (IF clip THEN <<"clip_grad_norm">> ELSE <<>>) \o <<"step">>

RECURSIVE CallsOfSteps(_, _, _)
CallsOfSteps(S, G, clip) ==
  IF S = 0 THEN <<>> ELSE CallsOfSteps(S - 1, G, clip) \o StepCalls(G, clip)

Count(seq, x) == Cardinality({k \in 1..Len(seq) : seq[k] = x})

\* C15: a train_component call with S steps and G accumulation sub-steps makes
\* its calls in the order, S times over: one zero_grad, G batch draws, one
\* gradient clipping exactly when max_grad_norm is set, one optimizer step;
\* an optimizer step is taken only with G contributions accumulated since the
\* zero_grad; a returned call has made S optimizer steps and S * G batch draws.
C15_StepProtocol ==
  tc.pc # "idle" =>
    /\ IsPrefix(tc.trace,
                CallsOfSteps(tc.steps_per_epoch, tc.grad_acc_steps, tc.max_grad_norm))
    /\ tc.pc = "step" => tc.grads = tc.grad_acc_steps
    /\ tc.pc = "done" =>
         /\ tc.trace =
              CallsOfSteps(tc.steps_per_epoch, tc.grad_acc_steps, tc.max_grad_norm)
         /\ Count(tc.trace, "step") = tc.steps_per_epoch
         /\ Count(tc.trace, "zero_grad") = tc.steps_per_epoch
         /\ Count(tc.trace, "sample_batch") = tc.steps_per_epoch * tc.grad_acc_steps
         /\ Count(tc.trace, "clip_grad_norm") =
              (IF tc.max_grad_norm THEN tc.steps_per_epoch ELSE 0)

\* a call with two steps of two sub-steps each and no max_grad_norm has returned
C15_Witness ==
  /\ tc.pc = "done"
  /\ tc.steps_per_epoch = 2
  /\ tc.grad_acc_steps = 2
  /\ ~tc.max_grad_norm
  /\ tc.trace = <<"zero_grad", "sample_batch", "sample_batch", "step",
                  "zero_grad", "sample_batch", "sample_batch", "step">>

----------------------------------------------------------------------------
(* Further properties of checkpointing (SpecCkpt) *)

\* positions inside save_checkpoint
SavePcs == {"save_copy"} \cup WritePcs

\* C16: an agent-only save_checkpoint writes the agent weights and nothing
\* else: the epoch counter, the optimizer artifact, the dataset subdirectory
\* and the seen-episode count stay exactly as they were; a full save writes
\* the weights, the epoch counter, the optimizer artifact and the dataset
\* subdirectory, and the seen-episode count exactly when evaluation is enabled.
C16_AgentOnlyFrame ==
  /\ [][(pc \in SavePcs /\ SaveAgentOnly(cfg)) =>
          /\ disk'.epoch = disk.epoch
          /\ disk'.optimizer = disk.optimizer
          /\ disk'.dataset = disk.dataset
          /\ disk'.num_seen = disk.num_seen]_vars
  /\ [][(pc \in SavePcs /\ ~cfg.eval_should) => disk'.num_seen = disk.num_seen]_vars
  /\ [](pc = "save_rm" => disk.last = File(self.weights, epoch))
  /\ []((pc = "save_rm" /\ ~SaveAgentOnly(cfg)) =>
          /\ disk.epoch = File(epoch, epoch)
          /\ disk.optimizer = File(self.optimizer, epoch)
          /\ disk.dataset = File(UpdateDiskCheckpoint(self.train_dataset), epoch)
          /\ cfg.eval_should =>
               disk.num_seen = File(self.test_dataset.num_seen_episodes, epoch))

\* an agent-only save has completed on a directory that holds the epoch
\* counter, optimizer artifact and dataset of an earlier full save
C16_Witness ==
  /\ pc = "log"
  /\ last_save.done /\ last_save.agent_only /\ last_save.epoch = epoch
  /\ disk.last = File(self.weights, epoch)
  /\ disk.epoch.present /\ disk.epoch.ep < epoch
  /\ disk.optimizer.present /\ disk.optimizer.ep < epoch
  /\ disk.dataset.present /\ disk.dataset.ep < epoch

\* C18: a save_checkpoint call that finds checkpoints_tmp in place fails in
\* its copy step: the process ends, the checkpoint directory and the backup
\* stay as they are; and as long as a backup left behind is in place no step
\* of any process changes the checkpoint directory or removes the backup,
\* so no later epoch is checkpointed.
C18_StaleBackupBlocksSave ==
  /\ [][(pc = "save_copy" /\ tmp.present) =>
          (pc' = "failed" /\ disk' = disk /\ tmp' = tmp /\ last_save' = last_save)]_vars
  /\ [][(tmp.present /\ pc \notin WritePcs) =>
          (disk' = disk /\ tmp' = tmp /\ last_save' = last_save)]_vars

\* a resumed process trained an epoch and ended in the copy step of its
\* save_checkpoint: the backup is not a copy this process took, and last.pt
\* does not hold this process's weights
C18_Witness ==
  /\ resume
  /\ FailedInSave
  /\ epoch >= 1
  /\ tmp.present
  /\ tmp # CopyTree(disk)
  /\ disk.last.present
  /\ disk.last.val # self.weights

\* every artifact of a full save is on disk, all written by the same save,
\* and the save removed its backup
CompleteCheckpoint ==
  /\ disk.dir
  /\ ~tmp.present
  /\ disk.last.present /\ disk.epoch.present
  /\ disk.optimizer.present /\ disk.dataset.present
  /\ disk.last.ep = disk.epoch.ep
  /\ disk.optimizer.ep = disk.epoch.ep
  /\ disk.dataset.ep = disk.epoch.ep
  /\ cfg.eval_should => (disk.num_seen.present /\ disk.num_seen.ep = disk.epoch.ep)

\* C20: on a complete checkpoint of a full save, load_checkpoint succeeds in
\* every process that has training or evaluation enabled, the evaluation-only
\* one included: such a process does not end in __init__.
C20_ResumeWhenEnabled ==
  (resume /\ pc # "new" /\ epoch = 0 /\ CompleteCheckpoint
     /\ (cfg.train_should \/ cfg.eval_should)) => pc # "failed"

----------------------------------------------------------------------------
(* Averaging in eval_component (SpecEC) *)

RECURSIVE SumOver(_, _, _)
SumOver(b, field, n) == IF n = 0 THEN 0 ELSE SumOver(b, field, n - 1) + b[n][field]

\* C17: an eval_component call whose traversal yields k >= 1 batches reports
\* as total_loss the sum of the k per-batch total losses divided by k, and
\* the named intermediate loss as its sum over the k batches divided by k;
\* k is the number of batches traversed, whatever the configured step count.
C17_EvaluationAveraging ==
  tc.pc = "returned" =>
    LET k == Len(tc.batches)
    IN /\ tc.steps = k
       /\ tc.total_loss = Frac(SumOver(tc.batches, "loss_total", k), k)
       /\ tc.intermediate = Frac(SumOver(tc.batches, "loss", k), k)

\* a call has returned after three batches with total losses 1, 2, 2 while
\* the configured step count is 1: the reported total is 5/3
C17_Witness ==
  /\ tc.pc = "returned"
  /\ Len(tc.batches) = 3
  /\ tc.steps_per_epoch = 1
  /\ [n \in 1..3 |-> tc.batches[n].loss_total] = <<1, 2, 2>>
  /\ tc.total_loss = [num |-> 5, den |-> 3]

----------------------------------------------------------------------------
(* Identifiers of imagined episodes (Spec) *)

\* C19: every episode identifier handed to the imagination episode manager is
\* at least 0, whatever the evaluation threshold that gates
\* inspect_imagination and the training threshold subtracted in the identifier.
C19_ImaginationIdsNonNegative ==
  \A k \in 1..Len(self.imagination) :
    \A i \in 1..Len(self.imagination[k]) : self.imagination[k][i] >= 0

====
